---- MODULE Spec2Model ----
(***************************************************************************)
(* Versioned read-through cache dictionaries (modeldict) over one shared   *)
(* keyspace.  Two persistence adapters are modelled from                   *)
(* src/modeldict/dict.py: RedisDict (a redis hash plus a counter key,      *)
(* written through MULTI/EXEC pipelines) and ModelDict (table rows plus a  *)
(* cache counter, written by separate database and cache calls).  The      *)
(* dictionary base class (modeldict/base.py: the local snapshot, the sync  *)
(* policy and the public get/set/delete/setdefault/pop calls) is modelled  *)
(* from sections 4.4 and 6 of the specification.                           *)
(*                                                                         *)
(* Every call of the backing store (one redis command or pipeline, one     *)
(* database query, one cache call) is one atomic step; the steps of        *)
(* different dictionary instances interleave freely.                       *)
(***************************************************************************)
EXTENDS Integers, Sequences, FiniteSets, TLC

\* ------------------------------------------------------------------ bounds
\* The version stamp is capped: no step increments it beyond MaxStamp.
MaxStamp == 4

\* ------------------------------------------------------------------ values
Instances == {"i1", "i2"}
Keys == {"a", "b"}

\* A Python value: its type and its text.  None is Python's None.
None == [t |-> "none", s |-> ""]
S1 == [t |-> "str", s |-> "1"]
S2 == [t |-> "str", s |-> "2"]
N1 == [t |-> "int", s |-> "1"]
EmptyStr == [t |-> "str", s |-> ""]

\* What the store can hold, what a caller can pass to set / setdefault, and
\* the defaults a caller can pass to pop (None: no default given).
StrVals == {S1, S2}
RawVals == {S1, S2, N1}
PopDefaults == {None, EmptyStr, S2}

\* str(v): the string form of a value; a string is its own string form.
Str(v) == [t |-> "str", s |-> v.s]

\* Python truthiness of a pop default (`elif default:`).
Truthy(v) == v # None /\ v.s # ""

EmptyHash == [k \in Keys |-> None]

\* --------------------------------------------------------- redis commands
HGet(h, k) == h[k]
HSet(h, k, v) == [h EXCEPT ![k] = v]
HSetNX(h, k, v) == IF h[k] = None THEN [h EXCEPT ![k] = v] ELSE h
HDel(h, k) == [h EXCEPT ![k] = None]
Incr(s) == s + 1

\* One queued command applied to the hash: the new hash and the command's
\* reply (hset / hsetnx / hdel reply 1 or 0 as a flag, hget the field).
RunCmd(h, c) ==
    CASE c.f = "hset"   -> [hash |-> HSet(h, c.k, c.v), res |-> [flag |-> h[c.k] = None, val |-> None]]
      [] c.f = "hsetnx" -> [hash |-> HSetNX(h, c.k, c.v), res |-> [flag |-> h[c.k] = None, val |-> None]]
      [] c.f = "hdel"   -> [hash |-> HDel(h, c.k), res |-> [flag |-> h[c.k] # None, val |-> None]]
      [] c.f = "hget"   -> [hash |-> h, res |-> [flag |-> h[c.k] # None, val |-> HGet(h, c.k)]]

RECURSIVE Execute(_, _)
Execute(h, cmds) ==
    IF cmds = <<>> THEN [hash |-> h, results |-> <<>>]
    ELSE LET r == RunCmd(h, Head(cmds))
             rest == Execute(r.hash, Tail(cmds))
         IN [hash |-> rest.hash, results |-> <<r.res>> \o rest.results]

\* A variant without the pipeline: the commands are sent as they are issued
\* and the INCR last, so a failing INCR leaves the commands applied.
TouchAndMultiUnpipelined(h, s, cmds, fail) ==
    LET r == Execute(h, cmds)
    IN [hash |-> r.hash, stamp |-> IF fail THEN s ELSE Incr(s),
        results |-> <<Incr(s)>> \o r.results, raised |-> fail]

\* RedisDict.__touch_and_multi: INCR of the counter key and the commands are
\* queued on one pipeline and executed as one MULTI block.  The outcome: the
\* new hash, the new counter, the replies (the INCR's first, then those of
\* the commands), and whether the call raised.  A failing INCR raises at line 67, before any command is
\* queued or executed, and leaving the `with` block discards the pipeline.
TouchAndMulti(h, s, cmds, fail) ==
    IF fail
    THEN [hash |-> h, stamp |-> s, results |-> <<>>, raised |-> TRUE]
    ELSE LET r == Execute(h, cmds)
         IN [hash |-> r.hash, stamp |-> Incr(s),
             results |-> <<Incr(s)>> \o r.results, raised |-> FALSE]

\* A variant of persist that sends HSET alone, without touching the counter.
RedisPersistNoTouch(h, s, k, v, fail) ==
    [hash |-> HSet(h, k, v), stamp |-> s, results |-> <<>>, raised |-> FALSE]

RedisPersist(h, s, k, v, fail) ==
    TouchAndMulti(h, s, <<[f |-> "hset", k |-> k, v |-> v]>>, fail)

\* A variant of depersist that touches the counter and deletes no field.
RedisDepersistNoDel(h, s, k, fail) ==
    TouchAndMulti(h, s, <<>>, fail)

RedisDepersist(h, s, k, fail) ==
    TouchAndMulti(h, s, <<[f |-> "hdel", k |-> k, v |-> None]>>, fail)

\* returns=-1: the reply of the last command, the HGET.
RedisSetdefault(h, s, k, d, fail) ==
    TouchAndMulti(h, s, <<[f |-> "hsetnx", k |-> k, v |-> d],
                          [f |-> "hget", k |-> k, v |-> None]>>, fail)

RedisPop(h, s, k, fail) ==
    TouchAndMulti(h, s, <<[f |-> "hget", k |-> k, v |-> None],
                          [f |-> "hdel", k |-> k, v |-> None]>>, fail)

\* ------------------------------------------------------------------ state
VARIABLES
    adapter,      \* "redis" or "model": the adapter class of every instance
    autosync,     \* autosync[i]: the instance's sync policy
    faulty,       \* whether calls of the counter can fail
    track,        \* whether the call log (pre, prev, ext) is kept
    store,        \* the hash's fields / the table's rows: key -> value or None
    stamp,        \* the counter key / cache counter; 0: the key is absent
    pc,           \* pc[i]: the instance's position
    op,           \* op[i]: the call in progress and its locals
    data,         \* data[i]: the local snapshot
    last_synced,  \* last_synced[i]: observed_version
    ret,          \* ret[i]: the outcome of the call that has just completed
    pre,          \* log: store, stamp and snapshot when i1's call started
    prev,         \* log: i1's previous completed call; the number of its
                  \* completed sets, and whether nothing else has written
    ext           \* log: the pending write that bypassed i1's public calls

vars == <<adapter, autosync, faulty, track, store, stamp, pc, op, data,
          last_synced, ret, pre, prev, ext>>

NoOp == [name |-> "none", key |-> "a", val |-> None, dflt |-> None, out |-> None, lu |-> 0,
         s0 |-> 0, had |-> FALSE]
NoRet == [status |-> "none", value |-> None, seen |-> {}]
NoPre == [store |-> EmptyHash, stamp |-> 0, data |-> EmptyHash, ls |-> 0]
NoPrev == [name |-> "none", key |-> "a", val |-> None, dflt |-> None,
           status |-> "none", value |-> None, stamp0 |-> 0, stamp1 |-> 0, had |-> FALSE,
           sets |-> 0, plain |-> TRUE]
NoExt == [key |-> "a", val |-> None, old |-> None, n |-> 0]

ReadOps == {"get", "contains", "len", "iter"}

\* persistents() and last_updated() of either adapter: hgetall / values_list,
\* and int(get(counter) or 0) / cache.get.
Persistents == store

\* A variant of last_updated() that reports one more than the counter holds.
LastUpdatedAhead == stamp + 1

LastUpdated == stamp

InitWith(f, t) ==
    /\ adapter \in {"redis", "model"}
    /\ autosync \in {a \in [Instances -> BOOLEAN] : a["i1"] \/ ~a["i2"]}
    /\ faulty = f
    /\ track = t
    /\ store = EmptyHash
    /\ stamp = 0
    /\ pc = [i \in Instances |-> "new"]
    /\ op = [i \in Instances |-> NoOp]
    /\ data = [i \in Instances |-> EmptyHash]
    /\ last_synced = [i \in Instances |-> 0]
    /\ ret = [i \in Instances |-> NoRet]
    /\ pre = NoPre
    /\ prev = NoPrev
    /\ ext = NoExt

Init == InitWith(FALSE, FALSE)

SoloInstance == "i1"
Logged(i) == track /\ i = SoloInstance

WriteOps == {"set", "delete", "setdefault", "pop"}
Fails == IF faulty THEN {FALSE, TRUE} ELSE {FALSE}
Present(d) == {k \in Keys : d[k] # None}

\* ---------------------------------------------------------------- the log
\* A call of i1 starts: remember the store, the stamp and the snapshot; a
\* pending bypassing write is forgotten when the call writes its key, and
\* counts the calls started since it was made.
LogCall(i, name, k) ==
    /\ pre' = IF Logged(i)
              THEN [store |-> store, stamp |-> stamp, data |-> data[i], ls |-> last_synced[i]]
              ELSE pre
    /\ ext' = IF Logged(i) /\ ext # NoExt
              THEN IF name \in WriteOps /\ k = ext.key THEN NoExt
                   ELSE [ext EXCEPT !.n = IF ext.n < 2 THEN ext.n + 1 ELSE 2]
              ELSE ext
    /\ UNCHANGED prev

NoLog == UNCHANGED <<pre, prev, ext>>
Config == UNCHANGED <<adapter, autosync, faulty, track>>

\* The positions of a ModelDict write between its first database call and
\* its cache.incr.
HalfDone == {"m_save", "m_del", "m_touch"}

\* The locals of a call that starts.  For a write the record also notes
\* whether the store holds the key as the call starts, and the stamp the
\* writes made so far amount to: the counter, and 1 for every ModelDict
\* write whose cache.incr is still to come.
Call(i, name, k, v, d) ==
    [name |-> name, key |-> k, val |-> v, dflt |-> d, out |-> None, lu |-> 0,
     s0 |-> IF name \in WriteOps
            THEN stamp + Cardinality({j \in Instances : pc[j] \in HalfDone})
            ELSE 0,
     had |-> name \in WriteOps /\ store[k] # None]

Goto(i, p) == pc' = [pc EXCEPT ![i] = p]

\* The call returns (status "ok") or raises (any other status).
Finish(i, st, v, sn) ==
    /\ pc' = [pc EXCEPT ![i] = "done"]
    /\ ret' = [ret EXCEPT ![i] = [status |-> st, value |-> v, seen |-> sn]]

\* ------------------------------------------------------------ construction
\* ModelDict.__init__: cache.add(cache_key, 1) adds the counter only if it
\* is absent; the base constructor follows.
\* A variant that calls cache.set, which overwrites an existing counter.
CacheSet(s, v) == v

\* cache.add(key, v): the counter after the call (0: the key is absent).
CacheAdd(s, v) == IF s = 0 THEN v ELSE s

ModelCacheAdd(i) ==
    /\ pc[i] = "new" /\ adapter = "model"
    /\ stamp' = CacheAdd(stamp, 1)
    /\ Goto(i, "init_lu")
    /\ UNCHANGED <<store, op, data, last_synced, ret>>
    /\ NoLog /\ Config

\* The base constructor's forced sync, first call: read last_updated().
\* RedisDict.__init__ runs the base constructor first.
ForceSyncStamp(i) ==
    /\ pc[i] = "init_lu" \/ (pc[i] = "new" /\ adapter = "redis")
    /\ op' = [op EXCEPT ![i] = [NoOp EXCEPT !.name = "init", !.lu = LastUpdated]]
    /\ Goto(i, "init_fetch")
    /\ UNCHANGED <<store, stamp, data, last_synced, ret>>
    /\ NoLog /\ Config

\* The forced sync, second call: fetch persistents(); the snapshot is built
\* from the stamp read before it.
ForceSyncFetch(i) ==
    /\ pc[i] = "init_fetch"
    /\ data' = [data EXCEPT ![i] = Persistents]
    /\ last_synced' = [last_synced EXCEPT ![i] = op[i].lu]
    /\ Goto(i, IF adapter = "redis" THEN "init_touch" ELSE "idle")
    /\ op' = [op EXCEPT ![i] = IF adapter = "redis" THEN op[i] ELSE NoOp]
    /\ UNCHANGED <<store, stamp, ret>>
    /\ NoLog /\ Config

\* A variant of the constructor that leaves the counter alone.
RedisTouchSkipped(s) == s

\* RedisDict.__init__, last line: __touch_last_updated(), an INCR.
RedisTouchLastUpdated(s) == Incr(s)

RedisInitTouch(i) ==
    /\ pc[i] = "init_touch"
    /\ stamp < MaxStamp
    /\ stamp' = RedisTouchLastUpdated(stamp)
    /\ Goto(i, "idle")
    /\ op' = [op EXCEPT ![i] = NoOp]
    /\ UNCHANGED <<store, data, last_synced, ret>>
    /\ NoLog /\ Config

\* ------------------------------------------------------------------ reads
\* What a read serves from snapshot d: the value or KeyNotFound for get,
\* and the keys it sees.
ServeStatus(name, k, d) == IF name = "get" /\ d[k] = None THEN "KeyNotFound" ELSE "ok"
ServeValue(name, k, d) == IF name = "get" THEN d[k] ELSE None
ServeSeen(name, k, d) ==
    CASE name \in {"get", "contains"} -> {k} \cap Present(d)
      [] name \in {"len", "iter"} -> Present(d)
      [] OTHER -> {}

\* The inputs of the calls.  The sequential specifications draw them from
\* the full sets; the concurrent one, whose interleavings multiply, from
\* one key, the string values, get and sync.
CallKeys == IF track THEN Keys ELSE {"a"}
CallVals == IF track THEN RawVals ELSE StrVals
CallDefaults == IF track THEN PopDefaults ELSE {None, S2}
CallReads == IF track THEN ReadOps \cup {"sync"} ELSE {"get", "sync"}
ReadKeys(name) == IF name \in {"get", "contains"} THEN CallKeys ELSE {"a"}

\* get / contains / len / iteration, and sync(): under autosync (and always
\* for sync) compare last_updated() with observed_version; when it is
\* greater the snapshot is fetched next, otherwise the read is served.
Read(i, name, k) ==
    /\ pc[i] = "idle"
    /\ IF (autosync[i] \/ name = "sync") /\ LastUpdated > last_synced[i]
       THEN /\ op' = [op EXCEPT ![i] = [Call(i, name, k, None, None) EXCEPT !.lu = LastUpdated]]
            /\ Goto(i, "sync_fetch") /\ UNCHANGED ret
       ELSE /\ op' = [op EXCEPT ![i] = Call(i, name, k, None, None)]
            /\ Finish(i, ServeStatus(name, k, data[i]), ServeValue(name, k, data[i]),
                      ServeSeen(name, k, data[i]))
    /\ UNCHANGED <<store, stamp, data, last_synced>>
    /\ LogCall(i, name, k) /\ Config

\* The refresh: the snapshot is replaced by persistents() and
\* observed_version becomes the stamp that was compared; the read is served.
SyncFetch(i) ==
    /\ pc[i] = "sync_fetch"
    /\ data' = [data EXCEPT ![i] = Persistents]
    /\ last_synced' = [last_synced EXCEPT ![i] = op[i].lu]
    /\ Finish(i, ServeStatus(op[i].name, op[i].key, Persistents),
              ServeValue(op[i].name, op[i].key, Persistents),
              ServeSeen(op[i].name, op[i].key, Persistents))
    /\ UNCHANGED <<store, stamp, op>>
    /\ NoLog /\ Config

\* --------------------------------------------------------- ModelDict calls
\* manager.get_or_create(defaults={value_col: val}, key_col=key): the rows,
\* whether a row was created, and the value column of the instance returned.
GetOrCreate(rows, k, v) ==
    IF rows[k] = None
    THEN [rows |-> [rows EXCEPT ![k] = v], created |-> TRUE, value |-> v]
    ELSE [rows |-> rows, created |-> FALSE, value |-> rows[k]]

\* A variant of persist that never saves a row it found.
MustSaveNever(g, v) == FALSE

\* ModelDict.persist, line 134: whether the row found is updated and saved.
MustSave(g, v) == ~g.created /\ g.value # v

\* instance.save() and instance.delete() of a row fetched earlier.
SaveRow(rows, k, v) == [rows EXCEPT ![k] = v]
DeleteRow(rows, k) == [rows EXCEPT ![k] = None]

\* A variant that calls cache.add, which leaves an existing counter alone.
ModelTouchByAdd(s) == IF s = 0 THEN 1 ELSE s

\* ModelDict.__touch_last_updated: cache.incr('last_updated').
ModelTouchLastUpdated(s) == Incr(s)

\* ------------------------------------------------------------------ writes
\* set(k, v): persist(k, str(v)).  RedisDict.persist is one pipeline; an
\* INCR that fails raises before anything is executed.  ModelDict.persist
\* starts with get_or_create.
Set(i, k, v) ==
    /\ pc[i] = "idle" /\ stamp < MaxStamp
    /\ op' = [op EXCEPT ![i] = Call(i, "set", k, v, None)]
    /\ IF adapter = "redis"
       THEN \E fail \in Fails :
              LET r == RedisPersist(store, stamp, k, Str(v), fail)
              IN /\ store' = r.hash /\ stamp' = r.stamp
                 /\ IF r.raised
                    THEN Finish(i, "BackendFailure", None, {})
                    ELSE Goto(i, "adv") /\ UNCHANGED ret
       ELSE LET g == GetOrCreate(store, k, Str(v))
            IN store' = g.rows
               /\ Goto(i, IF MustSave(g, Str(v)) THEN "m_save" ELSE "m_touch")
               /\ UNCHANGED <<stamp, ret>>
    /\ UNCHANGED <<data, last_synced>>
    /\ LogCall(i, "set", k) /\ Config

\* ModelDict.persist, lines 135-136: setattr and instance.save().
ModelSave(i) ==
    /\ pc[i] = "m_save"
    /\ store' = SaveRow(store, op[i].key, Str(op[i].val))
    /\ Goto(i, "m_touch")
    /\ UNCHANGED <<stamp, op, data, last_synced, ret>>
    /\ NoLog /\ Config

\* ModelDict: instance.delete() in depersist and _pop.
ModelDelete(i) ==
    /\ pc[i] = "m_del"
    /\ store' = DeleteRow(store, op[i].key)
    /\ Goto(i, "m_touch")
    /\ UNCHANGED <<stamp, op, data, last_synced, ret>>
    /\ NoLog /\ Config

\* ModelDict: the __touch_last_updated() that ends persist, depersist,
\* _setdefault (row created) and _pop (row found).
ModelTouch(i) ==
    /\ pc[i] = "m_touch"
    /\ \E fail \in Fails :
         IF fail
         THEN Finish(i, "BackendFailure", None, {}) /\ UNCHANGED stamp
         ELSE stamp < MaxStamp /\ stamp' = ModelTouchLastUpdated(stamp)
              /\ Goto(i, "adv") /\ UNCHANGED ret
    /\ UNCHANGED <<store, op, data, last_synced>>
    /\ NoLog /\ Config

\* delete(k): depersist(k).  RedisDict: one pipeline of INCR and HDEL.
\* ModelDict: manager.get raises DoesNotExist when there is no row, the
\* not-found error of the dictionary (KeyNotFound).
Delete(i, k) ==
    /\ pc[i] = "idle" /\ stamp < MaxStamp
    /\ op' = [op EXCEPT ![i] = Call(i, "delete", k, None, None)]
    /\ IF adapter = "redis"
       THEN \E fail \in Fails :
              LET r == RedisDepersist(store, stamp, k, fail)
              IN /\ store' = r.hash /\ stamp' = r.stamp
                 /\ IF r.raised
                    THEN Finish(i, "BackendFailure", None, {})
                    ELSE Goto(i, "adv") /\ UNCHANGED ret
       ELSE IF store[k] = None
            THEN Finish(i, "KeyNotFound", None, {}) /\ UNCHANGED <<store, stamp>>
            ELSE Goto(i, "m_del") /\ UNCHANGED <<store, stamp, ret>>
    /\ UNCHANGED <<data, last_synced>>
    /\ LogCall(i, "delete", k) /\ Config

\* setdefault(k, d): _setdefault(k, str(d)).  RedisDict: one pipeline of
\* INCR, HSETNX and HGET, returning the HGET's reply.  ModelDict:
\* get_or_create, the counter touched only when the row was created.
Setdefault(i, k, d) ==
    /\ pc[i] = "idle" /\ stamp < MaxStamp
    /\ IF adapter = "redis"
       THEN \E fail \in Fails :
              LET r == RedisSetdefault(store, stamp, k, Str(d), fail)
              IN /\ store' = r.hash /\ stamp' = r.stamp
                 /\ IF r.raised
                    THEN /\ op' = [op EXCEPT ![i] = Call(i, "setdefault", k, None, d)]
                         /\ Finish(i, "BackendFailure", None, {})
                    ELSE /\ op' = [op EXCEPT ![i] = [Call(i, "setdefault", k, None, d)
                                                     EXCEPT !.out = r.results[Len(r.results)].val]]
                         /\ Goto(i, "adv") /\ UNCHANGED ret
       ELSE LET g == GetOrCreate(store, k, Str(d))
            IN /\ store' = g.rows
               /\ op' = [op EXCEPT ![i] = [Call(i, "setdefault", k, None, d)
                                           EXCEPT !.out = g.value]]
               /\ Goto(i, IF g.created THEN "m_touch" ELSE "adv")
               /\ UNCHANGED <<stamp, ret>>
    /\ UNCHANGED <<data, last_synced>>
    /\ LogCall(i, "setdefault", k) /\ Config

\* A variant of _pop that tests the default before key_existed.
RedisPopValueDefaultFirst(r, d) == IF Truthy(d) THEN d ELSE r.results[2].val

\* RedisDict._pop, lines 46-56: last_updated, value, key_existed = replies;
\* what the call returns from them.
RedisPopRaises(r, d) == ~r.results[3].flag /\ ~Truthy(d)
RedisPopValue(r, d) == IF r.results[3].flag THEN r.results[2].val ELSE d

\* ModelDict._pop, lines 164-168: no row found.
ModelPopRaises(d) == d = None

\* pop(k, d): _pop(k, d).  RedisDict: one pipeline of INCR, HGET and HDEL.
\* ModelDict: manager.get first.
Pop(i, k, d) ==
    /\ pc[i] = "idle" /\ stamp < MaxStamp
    /\ IF adapter = "redis"
       THEN \E fail \in Fails :
              LET r == RedisPop(store, stamp, k, fail)
              IN /\ store' = r.hash /\ stamp' = r.stamp
                 /\ IF r.raised
                    THEN /\ op' = [op EXCEPT ![i] = Call(i, "pop", k, None, d)]
                         /\ Finish(i, "BackendFailure", None, {})
                    ELSE /\ op' = [op EXCEPT ![i] = [Call(i, "pop", k, None, d)
                                                     EXCEPT !.out = RedisPopValue(r, d)]]
                         /\ IF RedisPopRaises(r, d)
                            THEN Finish(i, "KeyNotFound", None, {})
                            ELSE Goto(i, "adv") /\ UNCHANGED ret
       ELSE /\ UNCHANGED <<store, stamp>>
            /\ op' = [op EXCEPT ![i] = [Call(i, "pop", k, None, d)
                                        EXCEPT !.out = IF store[k] = None THEN d ELSE store[k]]]
            /\ IF store[k] # None
               THEN Goto(i, "m_del") /\ UNCHANGED ret
               ELSE IF ModelPopRaises(d)
                    THEN Finish(i, "KeyNotFound", None, {})
                    ELSE Goto(i, "adv") /\ UNCHANGED ret
    /\ UNCHANGED <<data, last_synced>>
    /\ LogCall(i, "pop", k) /\ Config

\* The adapter has returned: the same change is made to the snapshot and
\* observed_version becomes last_updated().  delete removes the key from the
\* snapshot and raises KeyNotFound when the snapshot does not hold it.
LocalValue(o) ==
    CASE o.name = "set" -> Str(o.val)
      [] o.name = "setdefault" -> o.out
      [] OTHER -> None

Advance(i) ==
    /\ pc[i] = "adv"
    /\ IF op[i].name = "delete" /\ data[i][op[i].key] = None
       THEN Finish(i, "KeyNotFound", None, {}) /\ UNCHANGED <<data, last_synced>>
       ELSE /\ data' = [data EXCEPT ![i][op[i].key] = LocalValue(op[i])]
            /\ last_synced' = [last_synced EXCEPT ![i] = LastUpdated]
            /\ Finish(i, "ok", IF op[i].name \in {"setdefault", "pop"} THEN op[i].out ELSE None, {})
    /\ UNCHANGED <<store, stamp, op>>
    /\ NoLog /\ Config

\* The caller takes the outcome; the instance is ready for the next call.
Return(i) ==
    /\ pc[i] = "done"
    /\ Goto(i, "idle")
    /\ op' = [op EXCEPT ![i] = NoOp]
    /\ ret' = [ret EXCEPT ![i] = NoRet]
    /\ prev' = IF Logged(i)
               THEN [name |-> op[i].name, key |-> op[i].key, val |-> op[i].val,
                     dflt |-> op[i].dflt, status |-> ret[i].status, value |-> ret[i].value,
                     stamp0 |-> pre.stamp, stamp1 |-> stamp, had |-> pre.store[op[i].key] # None,
                     sets |-> CASE ~prev.plain \/ op[i].name \in WriteOps \ {"set"} -> 0
                                [] op[i].name = "set" /\ ret[i].status = "ok" -> prev.sets + 1
                                [] OTHER -> prev.sets,
                     plain |-> prev.plain /\ op[i].name \notin WriteOps \ {"set"}]
               ELSE prev
    /\ pre' = IF Logged(i) THEN NoPre ELSE pre
    /\ ext' = IF Logged(i) /\ (op[i].name = "sync" \/ (autosync[i] /\ op[i].name \in ReadOps))
              THEN NoExt ELSE ext
    /\ UNCHANGED <<store, stamp, data, last_synced>>
    /\ Config

\* A write that bypasses the instance's public calls: persist(k, v) called
\* on the adapter between two calls of the instance.
ExtPersist(k, v) ==
    /\ pc[SoloInstance] = "idle" /\ stamp < MaxStamp
    /\ IF adapter = "redis"
       THEN LET r == RedisPersist(store, stamp, k, v, FALSE)
            IN store' = r.hash /\ stamp' = r.stamp
       ELSE LET g == GetOrCreate(store, k, v)
            IN /\ store' = (IF MustSave(g, v) THEN SaveRow(g.rows, k, v) ELSE g.rows)
               /\ stamp' = ModelTouchLastUpdated(stamp)
    /\ ext' = IF data[SoloInstance][k] # v
              THEN [key |-> k, val |-> v, old |-> data[SoloInstance][k], n |-> 0]
              ELSE NoExt
    /\ prev' = [NoPrev EXCEPT !.plain = FALSE]
    /\ UNCHANGED <<pc, op, data, last_synced, ret, pre>>
    /\ Config

\* ---------------------------------------------------------- specifications
Step(i) ==
    \/ ModelCacheAdd(i)
    \/ ForceSyncStamp(i)
    \/ ForceSyncFetch(i)
    \/ RedisInitTouch(i)
    \/ \E name \in CallReads : \E k \in ReadKeys(name) : Read(i, name, k)
    \/ SyncFetch(i)
    \/ \E k \in CallKeys, v \in CallVals : Set(i, k, v)
    \/ ModelSave(i)
    \/ ModelDelete(i)
    \/ ModelTouch(i)
    \/ \E k \in CallKeys : Delete(i, k)
    \/ \E k \in CallKeys, d \in CallVals : Setdefault(i, k, d)
    \/ \E k \in CallKeys, d \in CallDefaults : Pop(i, k, d)
    \/ Advance(i)
    \/ Return(i)

\* Several instances share the keyspace; their steps interleave.
Next == \E i \in Instances : Step(i)

Spec == Init /\ [][Next]_vars

\* One instance used sequentially, its calls logged, and writes that bypass
\* it between its calls.
InitSolo == InitWith(FALSE, TRUE) /\ autosync["i2"] = autosync["i1"]

NextSolo ==
    \/ Step(SoloInstance)
    \/ \E k \in Keys, v \in StrVals : ExtPersist(k, v)

SpecSolo == InitSolo /\ [][NextSolo]_vars

\* The same, with counter calls that can fail.
InitFault == InitWith(TRUE, TRUE) /\ autosync["i2"] = autosync["i1"]

NextFault == Step(SoloInstance)

SpecFault == InitFault /\ [][NextFault]_vars

\* One instance alone on its keyspace: no other writer, no failing call.
NextAlone == Step(SoloInstance)

SpecAlone == InitSolo /\ [][NextAlone]_vars

\* ------------------------------------------------------------------ claims
me == SoloInstance
Constructing == {"new", "init_lu", "init_fetch", "init_touch"}
Completed(i, name) == pc[i] = "done" /\ op[i].name = name
Returned(i, name) == Completed(i, name) /\ ret[i].status = "ok"

\* C1: in every state in which no adapter operation is half-done, an
\* instance whose observed_version equals the store's version stamp holds a
\* snapshot equal to the store's full entry set.
C1_FreshSnapshotEqualsStore ==
    (\A j \in Instances : pc[j] \notin HalfDone) =>
        \A i \in Instances :
            (pc[i] \notin Constructing /\ last_synced[i] = stamp) => data[i] = store

\* C2: on the hash-store adapter the step of persist / depersist increments
\* the counter and writes / deletes the field together, and no step changes
\* a field of the hash without incrementing the counter: no reader can find
\* the one without the other.
C2_RedisWriteAndStampTogether ==
    [][adapter = "redis" =>
         /\ store' # store => stamp' = stamp + 1
         /\ \A i \in Instances :
              (pc[i] = "idle" /\ pc'[i] = "adv" /\ op'[i].name \in {"set", "delete"}) =>
                  /\ stamp' = stamp + 1
                  /\ store'[op'[i].key] = (IF op'[i].name = "set" THEN Str(op'[i].val) ELSE None)
                  /\ \A k \in Keys \ {op'[i].key} : store'[k] = store[k]]_vars

C2_Witness ==
    /\ adapter = "redis"
    /\ \E i, j \in Instances :
         /\ i # j /\ pc[j] = "idle"
         /\ pc[i] = "adv" /\ op[i].name = "set"
         /\ store[op[i].key] = Str(op[i].val) /\ data[j] # store

\* C3: on the hash-store adapter, when the counter increment of
\* persist(key, value) fails, the error reaches the caller and the store's
\* fields and the version stamp are what they were before the call.
C3_FailedIncrWritesNothing ==
    (adapter = "redis" /\ Completed(me, "set") /\ ret[me].status = "BackendFailure") =>
        /\ store = pre.store
        /\ stamp = pre.stamp

C3_Witness ==
    /\ adapter = "redis" /\ Completed(me, "set") /\ ret[me].status = "BackendFailure"
    /\ pre.store[op[me].key] # Str(op[me].val)
    /\ store[op[me].key] = None

\* C4: when set(k, v) has completed, the snapshot holds the string form of
\* v under k and last_updated() is greater than before the call; a get(k)
\* that follows returns the string form of v.
C4_SetThenGet ==
    /\ Returned(me, "set") =>
         /\ data[me][op[me].key] = Str(op[me].val)
         /\ LastUpdated > pre.stamp
    /\ (Completed(me, "get") /\ prev.name = "set" /\ prev.status = "ok"
          /\ prev.key = op[me].key) =>
         /\ ret[me].status = "ok"
         /\ ret[me].value = Str(prev.val)

C4_Witness ==
    /\ Completed(me, "get") /\ prev.name = "set" /\ prev.status = "ok"
    /\ prev.key = op[me].key /\ prev.had
    /\ prev.val = N1 /\ ret[me].value = S1

C6_SetdefaultTwiceBumpsOnce ==
    (Returned(me, "setdefault") /\ prev.name = "setdefault" /\ prev.status = "ok"
       /\ ~prev.had /\ prev.key = op[me].key) =>
        /\ prev.value = Str(prev.dflt)
        /\ ret[me].value = Str(prev.dflt)
        /\ data[me][op[me].key] = Str(prev.dflt)
        /\ store[op[me].key] = Str(prev.dflt)
        /\ stamp = prev.stamp0 + 1

\* C7: for a key absent from the store, pop(k, default) returns default and
\* leaves the store's entries and the version stamp unchanged, and pop(k)
\* without a default fails with KeyNotFound.
C7_PopAbsentKey ==
    (pc[me] = "done" /\ op[me].name = "pop" /\ pre.store[op[me].key] = None) =>
        IF op[me].dflt # None
        THEN /\ ret[me].status = "ok"
             /\ ret[me].value = op[me].dflt
             /\ store = pre.store
             /\ stamp = pre.stamp
        ELSE ret[me].status = "KeyNotFound"

\* C8: pop(k) or pop(k, default) on a key the store holds returns the stored
\* value, removes k from the snapshot and from the store, leaves every other
\* entry of both unchanged, and increases the version stamp.
C8_PopExistingKey ==
    (pc[me] = "done" /\ op[me].name = "pop" /\ pre.store[op[me].key] # None) =>
        /\ ret[me].status = "ok"
        /\ ret[me].value = pre.store[op[me].key]
        /\ store = [pre.store EXCEPT ![op[me].key] = None]
        /\ data[me] = [pre.data EXCEPT ![op[me].key] = None]
        /\ stamp > pre.stamp

C8_Witness ==
    /\ Returned(me, "pop") /\ pre.store[op[me].key] = S1 /\ op[me].dflt = S2
    /\ ret[me].value = S1
    /\ Present(store) # {} /\ Present(data[me]) # {}

C10_ManualSync ==
    /\ (~autosync[me] /\ ext # NoExt /\ ~Completed(me, "sync")) =>
         /\ data[me][ext.key] = ext.old
         /\ (pc[me] = "done" /\ op[me].name \in ReadOps) =>
              /\ (ext.old = None => ext.key \notin ret[me].seen)
              /\ (op[me].name = "get" /\ op[me].key = ext.key) => ret[me].value = ext.old
    /\ (~autosync[me] /\ Completed(me, "sync")) => data[me] = Persistents

\* C10, the part before sync(): the bypassing write stays invisible.
C10_InvisibleUntilSync ==
    (~autosync[me] /\ ext # NoExt /\ ~Completed(me, "sync")) =>
        /\ data[me][ext.key] = ext.old
        /\ (pc[me] = "done" /\ op[me].name \in ReadOps) =>
             /\ (ext.old = None => ext.key \notin ret[me].seen)
             /\ (op[me].name = "get" /\ op[me].key = ext.key) => ret[me].value = ext.old

\* C11: a read under autosync leaves the snapshot and observed_version as
\* they were whenever the store's stamp is not greater than
\* observed_version, also when the store's entries differ from the
\* snapshot; the snapshot changes in a read only by being replaced by the
\* store's entries, and only when the stamp is greater than observed_version.
C11_ReadRefreshesOnlyOnNewerStamp ==
    (autosync[me] /\ pc[me] = "done" /\ op[me].name \in ReadOps) =>
        /\ pre.stamp <= pre.ls =>
              (data[me] = pre.data /\ last_synced[me] = pre.ls)
        /\ (data[me] # pre.data \/ last_synced[me] # pre.ls) =>
              (pre.stamp > pre.ls /\ data[me] = store)

C11_Witness ==
    /\ autosync[me] /\ Completed(me, "get")
    /\ pre.stamp <= pre.ls /\ pre.store # pre.data
    /\ data[me] = pre.data /\ data[me] # store
    /\ ret[me].status = "KeyNotFound" /\ store[op[me].key] # None

\* C12: no step of any interleaving decreases the store's version stamp,
\* and the step that completes a persist or a depersist of either adapter
\* (a new key, an existing key overwritten, an existing key removed) leaves
\* it at least 1 greater.
C12_StampMonotonic ==
    [][/\ stamp' >= stamp
       /\ \A i \in Instances :
            (pc[i] # "adv" /\ pc'[i] = "adv" /\ op'[i].name \in {"set", "delete"}) =>
                stamp' >= stamp + 1]_vars

C12_Witness ==
    /\ adapter = "model"
    /\ \E i, j \in Instances :
         /\ i # j
         /\ pc[i] = "adv" /\ op[i].name = "delete" /\ store[op[i].key] = None
         /\ pc[j] = "new" /\ stamp >= 3

\* C13: for one instance constructed on a keyspace nobody has used, with no
\* other writer and no other kind of write, last_updated() is exactly 1
\* when construction has completed and exactly 1 + n when n set calls have
\* completed, on either adapter.
C13_StampCountsSets ==
    (prev.plain /\ pc[me] \notin Constructing) =>
        /\ pc[me] = "idle" => LastUpdated = 1 + prev.sets
        /\ Returned(me, "set") => LastUpdated = 1 + (prev.sets + 1)

C13_Witness ==
    /\ prev.plain /\ pc[me] = "idle"
    /\ prev.sets = 2 /\ LastUpdated = 3
    /\ store = [k \in Keys |-> IF k = "a" THEN S1 ELSE S2]
    /\ data[me] = store

\* C14: when the construction of an instance has completed, on either
\* adapter, the instance is Fresh: its snapshot equals persistents() and its
\* observed_version equals the store's version stamp.
C14_FreshAfterConstruction ==
    (pc[me] = "idle" /\ prev.name = "none" /\ prev.plain) =>
        /\ data[me] = Persistents
        /\ last_synced[me] = LastUpdated

\* C15: for every sequence of calls (set, delete, setdefault, pop, reads,
\* sync) on one instance with no other writer to the keyspace, the snapshot
\* equals persistents() whenever a call has completed, sync() included.
C15_SnapshotEqualsStoreWhenAlone ==
    pc[me] = "done" => data[me] = Persistents

C15_Witness ==
    /\ Completed(me, "sync") /\ data[me] = Persistents
    /\ prev.name = "pop" /\ prev.status = "ok" /\ prev.had
    /\ Present(store) # {}

\* C16: when two instances sharing a keyspace have both completed a
\* setdefault on the same key, the first on an absent key and the second
\* started while the first was in progress (nothing but the first call
\* having written in between): the second did not insert, both returned
\* the value the first inserted, the store holds it, and the version stamp
\* is 1 greater than when the first started.
C16_ConcurrentSetdefault ==
    \A i, j \in Instances :
        (/\ i # j /\ Returned(i, "setdefault") /\ Returned(j, "setdefault")
         /\ op[i].key = op[j].key
         /\ ~op[i].had /\ op[j].s0 = op[i].s0 + 1) =>
            /\ op[j].had
            /\ ret[i].value = Str(op[i].dflt)
            /\ ret[j].value = Str(op[i].dflt)
            /\ store[op[i].key] = Str(op[i].dflt)
            /\ stamp = op[i].s0 + 1

\* C17: when two instances sharing a keyspace have both completed a pop on
\* the same key, the first on a key the store held and the second started
\* while the first was in progress (nothing but the first call having
\* written in between): the first returned the stored value, the second saw
\* the key as absent (its default, or KeyNotFound), the store no longer
\* holds the key, and the version stamp is 1 greater than when the first
\* started.
C17_ConcurrentPop ==
    \A i, j \in Instances :
        (/\ i # j /\ Completed(i, "pop") /\ Completed(j, "pop")
         /\ op[i].key = op[j].key
         /\ op[i].had /\ op[j].s0 = op[i].s0 + 1) =>
            /\ ret[i].status = "ok" /\ ret[i].value = op[i].out
            /\ \/ ret[j].status = "KeyNotFound"
               \/ ret[j].status = "ok" /\ op[j].dflt # None /\ ret[j].value = op[j].dflt
            /\ store[op[i].key] = None
            /\ stamp = op[i].s0 + 1

\* C18: on the relational adapter the row write or row delete of persist /
\* depersist / take and the counter increment are one indivisible unit: no
\* step changes the rows persistents() returns without incrementing the
\* version stamp, so no state shows the one without the other.
C18_ModelRowAndStampTogether ==
    [][(adapter = "model" /\ store' # store) => stamp' = stamp + 1]_vars

\* C19: under autosync, in a state in which every instance is constructed
\* and no write is in progress (the writes, concurrent or not, have all
\* completed), a read that completes on any instance leaves that instance
\* with a snapshot equal to the store's entries, also when the instance was
\* itself writing while the others wrote.
C19_ReadAfterWritesSeesStore ==
    [][\A i \in Instances :
         (/\ \A j \in Instances : autosync[j] /\ pc[j] \in {"idle", "sync_fetch", "done"}
          /\ pc[i] # "done" /\ pc'[i] = "done" /\ op'[i].name \in ReadOps) =>
             data'[i] = store']_vars

\* C20: for every instance, in every state after its construction has
\* completed, observed_version is at most the store's version stamp (the
\* instance is Fresh or Stale, never ahead of the store), and no step
\* decreases an instance's observed_version.
C20_ObservedVersionBounded ==
    [][\A i \in Instances :
         /\ pc'[i] \notin Constructing => last_synced'[i] <= stamp'
         /\ last_synced'[i] >= last_synced[i]]_vars

C20_Witness ==
    \E i, j \in Instances :
        /\ pc[i] = "idle" /\ pc[j] = "done"
        /\ last_synced[i] >= 2 /\ last_synced[i] < stamp
        /\ last_synced[j] = stamp /\ op[j].name \in WriteOps

====
